---- MODULE Spec2Model ----
(***************************************************************************)
(* Model of the Jarvis-MKIII alarm-clock front end: the sound playback     *)
(* coordinator (SoundPlaybackProvider, SoundOption, SoundSelector and      *)
(* CollapsibleSection) and the alarm list screen (AlarmScreen).            *)
(*                                                                         *)
(* JavaScript runs each handler on one thread up to its next await, so an  *)
(* action is one such run: a click up to the first request it sends, or    *)
(* the continuation that a response or a timer resumes.  A request in      *)
(* flight is the field net of the invocation that awaits it: "sent" until  *)
(* the backend has dealt with it, then "ok" or "err" until the client has  *)
(* resumed.                                                                *)
(***************************************************************************)
EXTENDS Integers, Sequences, FiniteSets, TLC

VARIABLES
    currentlyPlaying,   \* SoundPlaybackProvider state: a sound id or NULL
    isExpanded,         \* CollapsibleSection state, one per SoundSelector
    device,             \* the sound the backend device is rendering, or NULL
    calls,              \* log of handlePlayback / handleCollapse invocations
    alarms,             \* AlarmScreen state: the displayed list
    loading,            \* AlarmScreen state
    error,              \* AlarmScreen state: a message or NULL
    server,             \* the backend's alarm list
    acalls,             \* log of AlarmScreen handler invocations
    returned,           \* <<alarm_id, active>> pairs the backend has reported
    isModalOpen,        \* AlarmScreen state: the creation modal is open
    hours,              \* TimePickerModal state
    minutes,            \* TimePickerModal state
    mounted,            \* SoundConfigScreen, host of SoundPlaybackProvider, is mounted
    activeScene,        \* SoundConfigScreen state: a scene name or NULL
    audioSystems,       \* SoundConfigScreen state: the list of audio systems
    globalSettings,     \* SoundConfigScreen state
    switching,          \* AudioSystemSelector state: a system id or NULL
    isOpen,             \* AudioSystemSelector state: the dropdown is open
    remote,             \* the backend's settings
    scalls,             \* log of SoundConfigScreen settings handler invocations
    toasts,             \* ToastProvider state: the list of toasts
    timers,             \* pending timers of the mounted ToastItems
    shown,              \* number of showToast calls so far
    isDragging,         \* Slider ref: isDragging.current
    sliderEvents        \* log of the pointer events a Slider has handled

soundVars == <<currentlyPlaying, isExpanded, device, calls>>
alarmVars == <<alarms, loading, error, server, acalls, returned>>
modalVars == <<isModalOpen, hours, minutes>>
settingsVars == <<activeScene, audioSystems, globalSettings, switching, isOpen,
                  remote, scalls>>
toastVars == <<toasts, timers, shown>>
sliderVars == <<isDragging, sliderEvents>>
uiVars == <<mounted, activeScene, audioSystems, globalSettings, switching, isOpen,
            remote, scalls, toasts, timers, shown, isDragging, sliderEvents>>
vars == <<currentlyPlaying, isExpanded, device, calls,
          alarms, loading, error, server, acalls, returned,
          isModalOpen, hours, minutes,
          mounted, activeScene, audioSystems, globalSettings, switching, isOpen,
          remote, scalls, toasts, timers, shown, isDragging, sliderEvents>>

NULL == "null"

\* Bounds of the model: the number of handler invocations in one run.
MaxCalls == 3
MaxAlarmCalls == 3
\* The number of handleAddAlarm invocations among them.
MaxCreates == 1

(***************************************************************************)
(* Sound playback                                                          *)
(***************************************************************************)

\* Two sounds, one in each SoundSelector of SoundConfigScreen.
Sounds == {"a", "b"}
Sections == {"wake", "get"}
SectionOf(s) == IF s = "a" THEN "wake" ELSE "get"

\* SoundOption: isPlaying = currentlyPlaying === sound.id
IsPlaying(s) == currentlyPlaying = s

StopPcs == {"stop_toggle", "stop_switch", "stop_collapse"}

\* Mutant: the id as soundApi.play puts it into the URL (encodeURIComponent).
RecordedIdEncoded(s) == IF s = "a" THEN "%61" ELSE "%62"

\* The value handlePlayback records when soundApi.play has resolved.
RecordedId(s) == s

\* A stopAllSounds whose catch block passes the rejection on.
StopAllSoundsRethrows(cp, ok) == [cp |-> cp, threw |-> ~ok]

\* stopAllSounds after soundApi.stop settled: the state it leaves and whether
\* it rejects to its caller.  The catch block only logs.
StopAllSounds(cp, ok) ==
    IF ok THEN [cp |-> NULL, threw |-> FALSE]
          ELSE [cp |-> cp, threw |-> FALSE]

\* Mutant: a catch block that only logs, as the one of stopAllSounds.
PlayOutcomeNoReset(cp, s, ok) == IF ok THEN s ELSE cp

\* handlePlayback after soundApi.play settled: setCurrentlyPlaying(sound.id),
\* or the catch block's setCurrentlyPlaying(null).
PlayOutcome(cp, s, ok) == IF ok THEN RecordedId(s) ELSE NULL

NewCall(kind, s, sec, pc, req) ==
    [kind |-> kind, sound |-> s, section |-> sec,
     cp |-> currentlyPlaying, pc |-> pc, net |-> "sent",
     reqs |-> <<req>>, outcome |-> "none", rejected |-> FALSE]

\* Mutant: the switch branch (if (currentlyPlaying) ...) left out.
PlaybackBranchNoStop(s) == IF currentlyPlaying = s THEN "stop_toggle" ELSE "play"

\* The branch handlePlayback takes at the click, from the rendered state.
PlaybackBranch(s) ==
    IF IsPlaying(s) THEN "stop_toggle"
    ELSE IF currentlyPlaying # NULL THEN "stop_switch"
    ELSE "play"

\* A click on the play/pause button of the widget of sound s.
HandlePlayback(s) ==
    /\ Len(calls) < MaxCalls
    /\ isExpanded[SectionOf(s)]
    /\ LET b == PlaybackBranch(s)
       IN calls' = Append(calls,
              NewCall("play", s, SectionOf(s), b, IF b = "play" THEN s ELSE "stop"))
    /\ UNCHANGED <<currentlyPlaying, isExpanded, device>>
    /\ UNCHANGED alarmVars
    /\ UNCHANGED modalVars
    /\ UNCHANGED uiVars

\* A click on a section header: CollapsibleSection.handleToggle flips
\* isExpanded and calls SoundSelector.handleCollapse(newState), which awaits
\* stopAllSounds when the section was collapsed.
HandleToggle(sec) ==
    LET newState == ~isExpanded[sec]
    IN /\ isExpanded' = [isExpanded EXCEPT ![sec] = newState]
       /\ IF ~newState
          THEN /\ Len(calls) < MaxCalls
               /\ calls' = Append(calls,
                      NewCall("collapse", NULL, sec, "stop_collapse", "stop"))
          ELSE calls' = calls
       /\ UNCHANGED <<currentlyPlaying, device>>
       /\ UNCHANGED alarmVars
       /\ UNCHANGED modalVars
       /\ UNCHANGED uiVars

\* What the device renders once the backend has accepted a request.
DeviceAfter(c) == IF c.pc \in StopPcs THEN NULL ELSE c.sound

\* The backend deals with the request of invocation i: it is served, or it
\* fails before reaching the device, or it is served and the reply is lost
\* (the client's 10 s timeout).
BackendServe(i) ==
    /\ calls[i].net = "sent"
    /\ \E fate \in {"ok", "failed", "lost_reply"} :
          /\ device' = IF fate = "failed" THEN device ELSE DeviceAfter(calls[i])
          /\ calls' = [calls EXCEPT ![i].net = IF fate = "ok" THEN "ok" ELSE "err"]
    /\ UNCHANGED <<currentlyPlaying, isExpanded>>
    /\ UNCHANGED alarmVars
    /\ UNCHANGED modalVars
    /\ UNCHANGED uiVars

\* handlePlayback resumes after its await stopAllSounds(): the toggle-off
\* branch returns, the switch branch starts the 100 ms timer; an exception
\* from stopAllSounds would reach the catch block.
PlaybackAfterStop(i) ==
    /\ calls[i].pc \in {"stop_toggle", "stop_switch"}
    /\ calls[i].net \in {"ok", "err"}
    /\ LET r == StopAllSounds(currentlyPlaying, calls[i].net = "ok")
       IN IF r.threw
          THEN /\ currentlyPlaying' = NULL
               /\ calls' = [calls EXCEPT ![i].pc = "done", ![i].net = "none",
                                         ![i].outcome = IF calls[i].net = "ok" THEN "stop_ok" ELSE "stop_err"]
          ELSE /\ currentlyPlaying' = r.cp
               /\ calls' = [calls EXCEPT
                      ![i].pc = IF calls[i].pc = "stop_toggle" THEN "done" ELSE "settle",
                      ![i].net = "none",
                      ![i].outcome = IF calls[i].net = "ok" THEN "stop_ok" ELSE "stop_err"]
    /\ UNCHANGED <<isExpanded, device>>
    /\ UNCHANGED alarmVars
    /\ UNCHANGED modalVars
    /\ UNCHANGED uiVars

\* handleCollapse resumes after its await stopAllSounds(): it has no catch.
CollapseAfterStop(i) ==
    /\ calls[i].pc = "stop_collapse"
    /\ calls[i].net \in {"ok", "err"}
    /\ LET r == StopAllSounds(currentlyPlaying, calls[i].net = "ok")
       IN /\ currentlyPlaying' = r.cp
          /\ calls' = [calls EXCEPT ![i].pc = "done", ![i].net = "none",
                                    ![i].outcome = IF calls[i].net = "ok" THEN "stop_ok" ELSE "stop_err",
                                    ![i].rejected = r.threw]
    /\ UNCHANGED <<isExpanded, device>>
    /\ UNCHANGED alarmVars
    /\ UNCHANGED modalVars
    /\ UNCHANGED uiVars

\* The 100 ms timer of the switch branch fires: soundApi.play(sound.id).
SettleElapsed(i) ==
    /\ calls[i].pc = "settle"
    /\ calls' = [calls EXCEPT ![i].pc = "play", ![i].net = "sent",
                              ![i].reqs = Append(@, calls[i].sound)]
    /\ UNCHANGED <<currentlyPlaying, isExpanded, device>>
    /\ UNCHANGED alarmVars
    /\ UNCHANGED modalVars
    /\ UNCHANGED uiVars

\* handlePlayback resumes after its await soundApi.play(sound.id).
PlaybackAfterPlay(i) ==
    /\ calls[i].pc = "play"
    /\ calls[i].net \in {"ok", "err"}
    /\ currentlyPlaying' = PlayOutcome(currentlyPlaying, calls[i].sound, calls[i].net = "ok")
    /\ calls' = [calls EXCEPT ![i].pc = "done", ![i].net = "none",
                              ![i].outcome = IF calls[i].net = "ok" THEN "play_ok" ELSE "play_err"]
    /\ UNCHANGED <<isExpanded, device>>
    /\ UNCHANGED alarmVars
    /\ UNCHANGED modalVars
    /\ UNCHANGED uiVars

(***************************************************************************)
(* Alarm screen                                                            *)
(***************************************************************************)

TimeOf(id) == IF id = 1 THEN "07:00" ELSE "08:30"

\* TimePickerModal: useState("12"), useState("25"), and the options offered.
DefaultHours == "12"
DefaultMinutes == "25"
HourOptions == {"07", "12"}
MinuteOptions == {"00", "25"}

\* `${hours}:${minutes}`
FormatTime(h, m) == h \o ":" \o m

ErrLoad == "Fehler beim Laden der Alarme"
ErrToggle == "Fehler beim Umschalten des Alarms"
\* The source spells it with o-umlaut.
ErrDelete == "Fehler beim Loeschen des Alarms"

\* The error state once loadAlarms has run its first statements,
\* setLoading(true) and setError(null), whatever was set before them.
ErrorAfterLoadStart(e) == NULL

\* prev.map(alarm => alarm.alarm_id === id ? {...alarm, active: val} : alarm)
SetActive(list, id, val) ==
    [k \in DOMAIN list |->
        IF list[k].alarm_id = id THEN [list[k] EXCEPT !.active = val] ELSE list[k]]

\* Mutant: the optimistic write without the alarm_id test.
OptimisticToggleAll(list, id, currentActive) ==
    [k \in DOMAIN list |-> [list[k] EXCEPT !.active = ~currentActive]]

\* The optimistic write of handleToggleAlarm.
OptimisticToggle(list, id, currentActive) == SetActive(list, id, ~currentActive)

\* Mutant: a catch block without the rollback.
RollbackMissing(list, id, currentActive) == list

\* The rollback in the catch block of handleToggleAlarm.
Rollback(list, id, currentActive) == SetActive(list, id, currentActive)

\* prev.filter(alarm => alarm.alarm_id !== id)
RemoveAlarm(list, id) == SelectSeq(list, LAMBDA a : a.alarm_id # id)

\* Mutant: the optimistic removal left out.
OptimisticRemoveMissing(list, id) == list

\* The optimistic removal of handleDeleteAlarm.
OptimisticRemove(list, id) == RemoveAlarm(list, id)

\* Mutant: setAlarms(prev => [...prev, ...response.alarms])
LoadedListAppended(prev, resp) == prev \o resp

\* loadAlarms after getAll resolved: setAlarms(response.alarms)
LoadedList(prev, resp) == resp

HasAlarm(list, id) == \E k \in DOMAIN list : list[k].alarm_id = id

Pairs(list) == {<<list[k].alarm_id, list[k].active>> : k \in DOMAIN list}

NewAlarmCall(kind, id, currentActive, pc) ==
    [kind |-> kind, id |-> id, currentActive |-> currentActive,
     pc |-> pc, net |-> "sent", resp |-> <<>>, mut |-> "none", loaded |-> "none",
     time |-> NULL, status |-> 0, rejected |-> FALSE]

\* A click on the switch of the k-th displayed alarm:
\* handleToggleAlarm(alarm.alarm_id, alarm.active) up to its first await.
\* The list is rendered only while loading is false.
HandleToggleAlarm(k) ==
    /\ ~loading
    /\ Len(acalls) < MaxAlarmCalls
    /\ LET id == alarms[k].alarm_id
           currentActive == alarms[k].active
       IN /\ error' = NULL
          /\ alarms' = OptimisticToggle(alarms, id, currentActive)
          /\ acalls' = Append(acalls, NewAlarmCall("toggle", id, currentActive, "toggle"))
    /\ UNCHANGED <<loading, server, returned>>
    /\ UNCHANGED soundVars
    /\ UNCHANGED uiVars
    /\ UNCHANGED modalVars

\* A click on the delete button of the k-th displayed alarm:
\* handleDeleteAlarm(alarm.alarm_id) up to its first await.
HandleDeleteAlarm(k) ==
    /\ ~loading
    /\ Len(acalls) < MaxAlarmCalls
    /\ LET id == alarms[k].alarm_id
       IN /\ error' = NULL
          /\ alarms' = OptimisticRemove(alarms, id)
          /\ acalls' = Append(acalls, NewAlarmCall("delete", id, FALSE, "delete"))
    /\ UNCHANGED <<loading, server, returned>>
    /\ UNCHANGED soundVars
    /\ UNCHANGED uiVars
    /\ UNCHANGED modalVars

\* A click on "Erneut versuchen", shown while an error is displayed:
\* loadAlarms up to its await.
RetryLoad ==
    /\ ~loading
    /\ error # NULL
    /\ Len(acalls) < MaxAlarmCalls
    /\ loading' = TRUE
    /\ error' = ErrorAfterLoadStart(error)
    /\ acalls' = Append(acalls, NewAlarmCall("load", 0, FALSE, "load"))
    /\ UNCHANGED <<alarms, server, returned>>
    /\ UNCHANGED soundVars
    /\ UNCHANGED uiVars
    /\ isModalOpen' = isModalOpen
    /\ hours' = DefaultHours
    /\ minutes' = DefaultMinutes

\* A click on the close button of the error banner.
DismissError ==
    /\ ~loading
    /\ error # NULL
    /\ error' = NULL
    /\ UNCHANGED <<alarms, loading, server, acalls, returned>>
    /\ UNCHANGED soundVars
    /\ UNCHANGED uiVars
    /\ UNCHANGED modalVars

HasTime(list, time) == \E k \in DOMAIN list : list[k].time = time

\* The backend's list after it has accepted the request of invocation c.
ServerAfter(c) ==
    IF c.pc = "toggle" THEN SetActive(server, c.id, ~c.currentActive)
    ELSE IF c.pc = "delete" THEN RemoveAlarm(server, c.id)
    ELSE IF c.pc = "create"
         THEN Append(server, [alarm_id |-> c.id, time |-> c.time, active |-> TRUE])
    ELSE server

\* The backend deals with the request of invocation i.  A toggle or delete
\* of an alarm the backend no longer has is answered with an error, a create
\* for a time that is taken with 409; a request that fails otherwise comes
\* back with no response (0), 422 or 500.
AlarmBackendServe(i) ==
    /\ acalls[i].net = "sent"
    /\ \E fate \in {"ok", "failed", "lost_reply"}, st \in {0, 422, 500} :
          LET c == acalls[i]
              known == \/ c.pc = "load"
                       \/ c.pc \in {"toggle", "delete"} /\ HasAlarm(server, c.id)
                       \/ c.pc = "create" /\ ~HasTime(server, c.time)
              accepted == known /\ fate # "failed"
          IN /\ (c.pc = "create" /\ fate = "failed") \/ st = 0
             /\ server' = IF accepted THEN ServerAfter(c) ELSE server
             /\ acalls' = [acalls EXCEPT
                    ![i].net = IF accepted /\ fate = "ok" THEN "ok" ELSE "err",
                    ![i].resp = IF accepted /\ c.pc = "load" THEN server ELSE <<>>,
                    ![i].status = IF c.pc = "create" /\ ~known /\ fate # "failed"
                                  THEN 409 ELSE st]
    /\ UNCHANGED <<alarms, loading, error, returned>>
    /\ UNCHANGED soundVars
    /\ UNCHANGED uiVars
    /\ UNCHANGED modalVars

\* A catch block that sends the toggle request again.
PcAfterToggleFailureRetry(pc) == pc

\* Where handleToggleAlarm stands after its catch block: it returns.
PcAfterToggleFailure(pc) == "done"

\* A call that has returned awaits nothing; any other position awaits a
\* request just sent.
NetAt(pc) == IF pc = "done" THEN "none" ELSE "sent"

\* handleToggleAlarm resumes after its await alarmApi.toggle: loadAlarms up
\* to its await, or the catch block.
ToggleResponse(i) ==
    /\ acalls[i].pc = "toggle"
    /\ acalls[i].net \in {"ok", "err"}
    /\ IF acalls[i].net = "ok"
       THEN /\ loading' = TRUE
            /\ error' = ErrorAfterLoadStart(error)
            /\ alarms' = alarms
            /\ returned' = returned \cup {<<acalls[i].id, ~acalls[i].currentActive>>}
            /\ acalls' = [acalls EXCEPT ![i].pc = "load", ![i].net = "sent", ![i].mut = "ok"]
       ELSE /\ error' = ErrToggle
            /\ alarms' = Rollback(alarms, acalls[i].id, acalls[i].currentActive)
            /\ acalls' = [acalls EXCEPT ![i].pc = PcAfterToggleFailure(acalls[i].pc),
                                        ![i].net = NetAt(PcAfterToggleFailure(acalls[i].pc)),
                                        ![i].mut = "err"]
            /\ UNCHANGED <<loading, returned>>
    /\ UNCHANGED server
    /\ UNCHANGED soundVars
    /\ UNCHANGED uiVars
    /\ isModalOpen' = isModalOpen
    /\ hours' = IF acalls[i].net = "ok" THEN DefaultHours ELSE hours
    /\ minutes' = IF acalls[i].net = "ok" THEN DefaultMinutes ELSE minutes

\* handleDeleteAlarm resumes after its await alarmApi.delete: on success
\* loadAlarms; on failure setError(...) and then loadAlarms, whose first
\* statements are setLoading(true) and setError(null).
DeleteResponse(i) ==
    /\ acalls[i].pc = "delete"
    /\ acalls[i].net \in {"ok", "err"}
    /\ loading' = TRUE
    /\ error' = ErrorAfterLoadStart(IF acalls[i].net = "err" THEN ErrDelete ELSE error)
    /\ acalls' = [acalls EXCEPT ![i].pc = "load", ![i].net = "sent",
                                ![i].mut = acalls[i].net]
    /\ UNCHANGED <<alarms, server, returned>>
    /\ UNCHANGED soundVars
    /\ UNCHANGED uiVars
    /\ isModalOpen' = isModalOpen
    /\ hours' = DefaultHours
    /\ minutes' = DefaultMinutes

\* A loadAlarms without its catch block.
LoadAlarmsRejectsOnFailure(ok) == ~ok

\* Whether the promise of loadAlarms rejects: its catch block sets the error
\* and its finally block clears loading, neither throws.
LoadAlarmsRejects(ok) == FALSE

\* Whether call c awaits loadAlarms inside its try block (toggle, create and
\* the success path of delete) and not in the catch block of
\* handleDeleteAlarm or bare (mount effect, retry button).
LoadInsideTry(c) ==
    \/ c.kind \in {"toggle", "create"}
    \/ c.kind = "delete" /\ c.mut = "ok"

\* A handler that leaves the modal as it finds it.
ModalAfterLoadKept(kind, open) == open

\* The modal flag once loadAlarms has returned to its caller: handleAddAlarm
\* goes on to setIsModalOpen(false); the other callers do not touch it.
ModalAfterLoad(kind, open) == IF kind = "create" THEN FALSE ELSE open

\* loadAlarms resumes after its await alarmApi.getAll; handleAddAlarm, when
\* it is the caller, then closes the modal.
LoadResponse(i) ==
    /\ acalls[i].pc = "load"
    /\ acalls[i].net \in {"ok", "err"}
    /\ IF acalls[i].net = "ok"
       THEN /\ alarms' = LoadedList(alarms, acalls[i].resp)
            /\ returned' = returned \cup Pairs(acalls[i].resp)
            /\ error' = error
       ELSE /\ error' = ErrLoad
            /\ UNCHANGED <<alarms, returned>>
    /\ loading' = FALSE
    /\ acalls' = [acalls EXCEPT ![i].pc = "done", ![i].net = "none",
                                ![i].loaded = acalls[i].net,
                                ![i].rejected = /\ LoadAlarmsRejects(acalls[i].net = "ok")
                                                /\ ~LoadInsideTry(acalls[i])]
    /\ UNCHANGED server
    /\ UNCHANGED soundVars
    /\ UNCHANGED uiVars
    /\ isModalOpen' = ModalAfterLoad(acalls[i].kind, isModalOpen)
    /\ UNCHANGED <<hours, minutes>>

\* The header's plus button: openModal.
OpenModal ==
    /\ ~isModalOpen
    /\ isModalOpen' = TRUE
    /\ UNCHANGED <<hours, minutes>>
    /\ UNCHANGED alarmVars
    /\ UNCHANGED soundVars
    /\ UNCHANGED uiVars

\* The modal's onClose (backdrop, X, "Abbrechen"); the modal is rendered
\* with the list, while loading is false.
CloseModal ==
    /\ isModalOpen
    /\ ~loading
    /\ isModalOpen' = FALSE
    /\ error' = NULL
    /\ UNCHANGED <<hours, minutes>>
    /\ UNCHANGED <<alarms, loading, server, acalls, returned>>
    /\ UNCHANGED soundVars
    /\ UNCHANGED uiVars

\* The selects of TimePickerModal.
SelectTime(h, m) ==
    /\ isModalOpen
    /\ ~loading
    /\ <<h, m>> # <<hours, minutes>>
    /\ hours' = h
    /\ minutes' = m
    /\ UNCHANGED isModalOpen
    /\ UNCHANGED alarmVars
    /\ UNCHANGED soundVars
    /\ UNCHANGED uiVars

\* The modal state after TimePickerModal.handleSave:
\* onSave(time) has run up to its await, then onClose().
ModalAfterSave(open) == FALSE

\* A catch block that tells a conflict apart and nothing else.
CreateErrorConflictOnly(status, time) ==
    IF status = 409 THEN "Alarm fuer " \o time \o " existiert bereits"
    ELSE "Fehler beim Erstellen des Alarms"

\* The error message of handleAddAlarm's catch block for err.response?.status.
CreateError(status, time) ==
    IF status = 409 THEN "Alarm fuer " \o time \o " existiert bereits"
    ELSE IF status = 422 THEN "Ungueltiges Zeitformat"
    ELSE "Fehler beim Erstellen des Alarms"

\* A click on "Erstellen": TimePickerModal.handleSave calls
\* handleAddAlarm(`${hours}:${minutes}`), which runs up to its await of
\* alarmApi.create, and then onClose().
HandleSave ==
    /\ isModalOpen
    /\ ~loading
    /\ Len(acalls) < MaxAlarmCalls
    /\ Cardinality({i \in DOMAIN acalls : acalls[i].kind = "create"}) < MaxCreates
    /\ error' = NULL
    /\ acalls' = Append(acalls,
          [NewAlarmCall("create", Len(acalls) + 3, FALSE, "create")
              EXCEPT !.time = FormatTime(hours, minutes)])
    /\ isModalOpen' = ModalAfterSave(isModalOpen)
    /\ UNCHANGED <<hours, minutes>>
    /\ UNCHANGED <<alarms, loading, server, returned>>
    /\ UNCHANGED soundVars
    /\ UNCHANGED uiVars

\* handleAddAlarm resumes after its await alarmApi.create: loadAlarms up to
\* its await, or the catch block.
CreateResponse(i) ==
    /\ acalls[i].pc = "create"
    /\ acalls[i].net \in {"ok", "err"}
    /\ IF acalls[i].net = "ok"
       THEN /\ loading' = TRUE
            /\ error' = ErrorAfterLoadStart(error)
            /\ hours' = DefaultHours
            /\ minutes' = DefaultMinutes
            /\ acalls' = [acalls EXCEPT ![i].pc = "load", ![i].net = "sent", ![i].mut = "ok"]
       ELSE /\ error' = CreateError(acalls[i].status, acalls[i].time)
            /\ acalls' = [acalls EXCEPT ![i].pc = "done", ![i].net = "none", ![i].mut = "err"]
            /\ UNCHANGED <<loading, hours, minutes>>
    /\ UNCHANGED <<alarms, server, returned, isModalOpen>>
    /\ UNCHANGED soundVars
    /\ UNCHANGED uiVars

\* Navigation away from SoundConfigScreen: the screen, its
\* SoundPlaybackProvider and the widgets below it unmount. Neither component
\* registers an effect cleanup, so nothing is sent; handlers already running
\* go on after their awaits.
Unmount ==
    /\ mounted
    /\ mounted' = FALSE
    /\ UNCHANGED soundVars
    /\ UNCHANGED alarmVars
    /\ UNCHANGED modalVars
    /\ UNCHANGED settingsVars
    /\ UNCHANGED toastVars
    /\ UNCHANGED sliderVars

(***************************************************************************)
(* Specifications                                                          *)
(***************************************************************************)

\* SoundConfigScreen mounted, nothing playing; the alarm screen is not used.
SoundInit ==
    /\ currentlyPlaying = NULL
    /\ isExpanded = [sec \in Sections |-> TRUE]
    /\ device = NULL
    /\ calls = <<>>
    /\ alarms = <<>>
    /\ loading = TRUE
    /\ error = NULL
    /\ server = <<>>
    /\ acalls = <<>>
    /\ returned = {}
    /\ isModalOpen = FALSE
    /\ hours = DefaultHours
    /\ minutes = DefaultMinutes
    /\ mounted = TRUE
    /\ activeScene = NULL
    /\ audioSystems = <<>>
    /\ globalSettings = [brightness |-> 100, volume |-> "0.5",
                         wakeUpSound |-> "", getUpSound |-> ""]
    /\ switching = NULL
    /\ isOpen = FALSE
    /\ remote = <<>>
    /\ scalls = <<>>
    /\ toasts = <<>>
    /\ timers = {}
    /\ shown = 0
    /\ isDragging = FALSE
    /\ sliderEvents = <<>>

SoundNext ==
    \/ \E s \in Sounds : HandlePlayback(s)
    \/ \E sec \in Sections : HandleToggle(sec)
    \/ \E i \in DOMAIN calls : BackendServe(i)
    \/ \E i \in DOMAIN calls : PlaybackAfterStop(i)
    \/ \E i \in DOMAIN calls : CollapseAfterStop(i)
    \/ \E i \in DOMAIN calls : SettleElapsed(i)
    \/ \E i \in DOMAIN calls : PlaybackAfterPlay(i)

SoundSpec == SoundInit /\ [][SoundNext]_vars

\* SoundConfigScreen mounted with nothing playing; the user may navigate
\* away. Clicks need the mounted widgets; the backend and the continuations
\* of running handlers do not (a setter of an unmounted provider changes a
\* value that is no longer rendered).
UnmountInit ==
    /\ currentlyPlaying = NULL
    /\ isExpanded = [sec \in Sections |-> TRUE]
    /\ device = NULL
    /\ calls = <<>>
    /\ alarms = <<>>
    /\ loading = TRUE
    /\ error = NULL
    /\ server = <<>>
    /\ acalls = <<>>
    /\ returned = {}
    /\ isModalOpen = FALSE
    /\ hours = DefaultHours
    /\ minutes = DefaultMinutes
    /\ mounted = TRUE
    /\ activeScene = NULL
    /\ audioSystems = <<>>
    /\ globalSettings = [brightness |-> 100, volume |-> "0.5",
                         wakeUpSound |-> "", getUpSound |-> ""]
    /\ switching = NULL
    /\ isOpen = FALSE
    /\ remote = <<>>
    /\ scalls = <<>>
    /\ toasts = <<>>
    /\ timers = {}
    /\ shown = 0
    /\ isDragging = FALSE
    /\ sliderEvents = <<>>

UnmountNext ==
    \/ mounted /\ \E s \in Sounds : HandlePlayback(s)
    \/ mounted /\ \E sec \in Sections : HandleToggle(sec)
    \/ Unmount
    \/ \E i \in DOMAIN calls : BackendServe(i)
    \/ \E i \in DOMAIN calls : PlaybackAfterStop(i)
    \/ \E i \in DOMAIN calls : CollapseAfterStop(i)
    \/ \E i \in DOMAIN calls : SettleElapsed(i)
    \/ \E i \in DOMAIN calls : PlaybackAfterPlay(i)

UnmountSpec == UnmountInit /\ [][UnmountNext]_vars

\* AlarmScreen mounted: its state as constructed and the getAll of the mount
\* effect in flight; the backend holds both alarms, each active or not.
AlarmInit ==
    /\ alarms = <<>>
    /\ loading = TRUE
    /\ error = NULL
    /\ \E a1, a2 \in BOOLEAN :
          server = << [alarm_id |-> 1, time |-> TimeOf(1), active |-> a1],
                      [alarm_id |-> 2, time |-> TimeOf(2), active |-> a2] >>
    /\ acalls = << NewAlarmCall("load", 0, FALSE, "load") >>
    /\ returned = {}
    /\ isModalOpen = FALSE
    /\ hours = DefaultHours
    /\ minutes = DefaultMinutes
    /\ currentlyPlaying = NULL
    /\ isExpanded = [sec \in Sections |-> TRUE]
    /\ device = NULL
    /\ calls = <<>>
    /\ mounted = TRUE
    /\ activeScene = NULL
    /\ audioSystems = <<>>
    /\ globalSettings = [brightness |-> 100, volume |-> "0.5",
                         wakeUpSound |-> "", getUpSound |-> ""]
    /\ switching = NULL
    /\ isOpen = FALSE
    /\ remote = <<>>
    /\ scalls = <<>>
    /\ toasts = <<>>
    /\ timers = {}
    /\ shown = 0
    /\ isDragging = FALSE
    /\ sliderEvents = <<>>

AlarmNext ==
    \/ \E k \in DOMAIN alarms : HandleToggleAlarm(k)
    \/ \E k \in DOMAIN alarms : HandleDeleteAlarm(k)
    \/ RetryLoad
    \/ DismissError
    \/ \E i \in DOMAIN acalls : AlarmBackendServe(i)
    \/ \E i \in DOMAIN acalls : ToggleResponse(i)
    \/ \E i \in DOMAIN acalls : DeleteResponse(i)
    \/ \E i \in DOMAIN acalls : LoadResponse(i)

AlarmSpec == AlarmInit /\ [][AlarmNext]_vars

\* AlarmScreen mounted as for AlarmSpec, with the user creating alarms; the
\* switches and delete buttons of the listed alarms are left alone.
CreateInit ==
    /\ alarms = <<>>
    /\ loading = TRUE
    /\ error = NULL
    /\ \E a1 \in BOOLEAN :
          server = << [alarm_id |-> 1, time |-> TimeOf(1), active |-> a1] >>
    /\ acalls = << NewAlarmCall("load", 0, FALSE, "load") >>
    /\ returned = {}
    /\ isModalOpen = FALSE
    /\ hours = DefaultHours
    /\ minutes = DefaultMinutes
    /\ currentlyPlaying = NULL
    /\ isExpanded = [sec \in Sections |-> TRUE]
    /\ device = NULL
    /\ calls = <<>>
    /\ mounted = TRUE
    /\ activeScene = NULL
    /\ audioSystems = <<>>
    /\ globalSettings = [brightness |-> 100, volume |-> "0.5",
                         wakeUpSound |-> "", getUpSound |-> ""]
    /\ switching = NULL
    /\ isOpen = FALSE
    /\ remote = <<>>
    /\ scalls = <<>>
    /\ toasts = <<>>
    /\ timers = {}
    /\ shown = 0
    /\ isDragging = FALSE
    /\ sliderEvents = <<>>

CreateNext ==
    \/ OpenModal
    \/ CloseModal
    \/ \E h \in HourOptions, m \in MinuteOptions : SelectTime(h, m)
    \/ HandleSave
    \/ RetryLoad
    \/ \E i \in DOMAIN acalls : AlarmBackendServe(i)
    \/ \E i \in DOMAIN acalls : CreateResponse(i)
    \/ \E i \in DOMAIN acalls : LoadResponse(i)

CreateSpec == CreateInit /\ [][CreateNext]_vars

\* The sound settings screen and the alarm screen are different routes: a
\* run stays on the screen whose handler or request was the first to move.
\* The backend holds alarm 1 inactive and alarm 2 active.
HandlersInit ==
    /\ currentlyPlaying = NULL
    /\ isExpanded = [sec \in Sections |-> TRUE]
    /\ device = NULL
    /\ calls = <<>>
    /\ alarms = <<>>
    /\ loading = TRUE
    /\ error = NULL
    /\ server = << [alarm_id |-> 1, time |-> TimeOf(1), active |-> FALSE],
                   [alarm_id |-> 2, time |-> TimeOf(2), active |-> TRUE] >>
    /\ acalls = << NewAlarmCall("load", 0, FALSE, "load") >>
    /\ returned = {}
    /\ isModalOpen = FALSE
    /\ hours = DefaultHours
    /\ minutes = DefaultMinutes
    /\ mounted = TRUE
    /\ activeScene = NULL
    /\ audioSystems = <<>>
    /\ globalSettings = [brightness |-> 100, volume |-> "0.5",
                         wakeUpSound |-> "", getUpSound |-> ""]
    /\ switching = NULL
    /\ isOpen = FALSE
    /\ remote = <<>>
    /\ scalls = <<>>
    /\ toasts = <<>>
    /\ timers = {}
    /\ shown = 0
    /\ isDragging = FALSE
    /\ sliderEvents = <<>>

\* Nothing has happened on the alarm screen: its first getAll is unanswered.
AlarmUntouched == acalls = << NewAlarmCall("load", 0, FALSE, "load") >>

HandlersNext ==
    \/ AlarmUntouched /\ SoundNext
    \/ calls = <<>> /\ AlarmNext

HandlersSpec == HandlersInit /\ [][HandlersNext]_vars

(***************************************************************************)
(* Settings screen (SoundConfigScreen, AudioSystemSelector)                *)
(***************************************************************************)

\* The number of settings handler invocations in one run.
MaxSettingCalls == 2

Scenes == {"s1", "s2"}
Systems == <<"sonos_era_100", "usb_speaker">>
SliderFields == {"brightness", "volume"}
SoundFields == {"wakeUpSound", "getUpSound"}

\* Positions a slider can be dragged to.
SliderValues(f) == IF f = "brightness" THEN {50, 100} ELSE {50, 80}

\* onVolumeChange / onVolumeChangeEnd: apiValue = value / 100; brightness is
\* passed on as it is.
ApiValue(f, v) ==
    IF f = "volume" THEN (IF v = 50 THEN "0.5" ELSE "0.8") ELSE v

\* getVolumeForSlider: Math.round(volume * 100); the brightness slider shows
\* globalSettings.brightness.
SliderValue(f, api) ==
    IF f = "volume" THEN (IF api = "0.5" THEN 50 ELSE 80) ELSE api

\* The list GET /audio/systems answers when system a is the active one.
SystemsList(a) ==
    [k \in DOMAIN Systems |-> [id |-> Systems[k], active |-> Systems[k] = a]]

\* prev.map(system => ({...system, active: system.id === systemId}))
MarkActive(list, id) ==
    [k \in DOMAIN list |-> [list[k] EXCEPT !.active = (list[k].id = id)]]

\* inactiveSystems of AudioSystemSelector.
InactiveSystems(list) == {list[k].id : k \in {j \in DOMAIN list : ~list[j].active}}

NewSettingCall(kind, value, prior, pc, net) ==
    [kind |-> kind, value |-> value, prior |-> prior, pc |-> pc, net |-> net,
     resp |-> <<>>, mut |-> "none", reqs |-> IF net = "sent" THEN 1 ELSE 0]

\* onSceneSelect up to its await.
OnSceneSelect(sc) ==
    /\ Len(scalls) < MaxSettingCalls
    /\ activeScene' = sc
    /\ scalls' = Append(scalls, NewSettingCall("scene", sc, activeScene, "save", "sent"))
    /\ UNCHANGED <<audioSystems, globalSettings, switching, isOpen, remote>>
    /\ UNCHANGED soundVars
    /\ UNCHANGED alarmVars
    /\ UNCHANGED modalVars
    /\ UNCHANGED <<mounted, toasts, timers, shown, isDragging, sliderEvents>>

\* onSceneSelect after its await: nothing more on success, the catch block
\* on failure.
SceneFailureValue(prior) == NULL

SceneResponse(i) ==
    /\ scalls[i].kind = "scene"
    /\ scalls[i].net \in {"ok", "err"}
    /\ activeScene' = IF scalls[i].net = "ok" THEN activeScene
                      ELSE SceneFailureValue(scalls[i].prior)
    /\ scalls' = [scalls EXCEPT ![i].pc = "done", ![i].net = "none",
                                ![i].mut = scalls[i].net]
    /\ UNCHANGED <<audioSystems, globalSettings, switching, isOpen, remote>>
    /\ UNCHANGED soundVars
    /\ UNCHANGED alarmVars
    /\ UNCHANGED modalVars
    /\ UNCHANGED <<mounted, toasts, timers, shown, isDragging, sliderEvents>>

\* A slider of SoundConfigScreen is moved: onBrightnessChange /
\* onVolumeChange write the live value. The first move of a drag opens the
\* log entry of the drag with the value shown before it.
Dragging(f) == {i \in DOMAIN scalls : scalls[i].kind = f /\ scalls[i].pc = "drag"}

OnSliderChange(f, v) ==
    /\ v # SliderValue(f, globalSettings[f])
    /\ globalSettings' = [globalSettings EXCEPT ![f] = ApiValue(f, v)]
    /\ IF Dragging(f) = {}
       THEN /\ Len(scalls) < MaxSettingCalls
            /\ scalls' = Append(scalls,
                   NewSettingCall(f, NULL, globalSettings[f], "drag", "none"))
       ELSE scalls' = scalls
    /\ UNCHANGED <<activeScene, audioSystems, switching, isOpen, remote>>
    /\ UNCHANGED soundVars
    /\ UNCHANGED alarmVars
    /\ UNCHANGED modalVars
    /\ UNCHANGED <<mounted, toasts, timers, shown, isDragging, sliderEvents>>

\* The slider is released: onBrightnessChangeEnd / onVolumeChangeEnd up to
\* the await, with the value the input holds.
OnSliderChangeEnd(f) ==
    /\ \E i \in Dragging(f) :
          scalls' = [scalls EXCEPT ![i].pc = "save", ![i].net = "sent",
                                   ![i].reqs = 1,
                                   ![i].value = ApiValue(f, SliderValue(f, globalSettings[f]))]
    /\ UNCHANGED <<activeScene, audioSystems, globalSettings, switching, isOpen, remote>>
    /\ UNCHANGED soundVars
    /\ UNCHANGED alarmVars
    /\ UNCHANGED modalVars
    /\ UNCHANGED <<mounted, toasts, timers, shown, isDragging, sliderEvents>>

\* onWakeUpSoundChange / onGetUpSoundChange up to the await: another sound's
\* select button is clicked.
OnSoundChange(f, s) ==
    /\ Len(scalls) < MaxSettingCalls
    /\ s # globalSettings[f]
    /\ scalls' = Append(scalls, NewSettingCall(f, s, globalSettings[f], "save", "sent"))
    /\ UNCHANGED <<activeScene, audioSystems, globalSettings, switching, isOpen, remote>>
    /\ UNCHANGED soundVars
    /\ UNCHANGED alarmVars
    /\ UNCHANGED modalVars
    /\ UNCHANGED <<mounted, toasts, timers, shown, isDragging, sliderEvents>>

\* The four setGlobalSettings handlers after their await: the value is
\* written on success, the catch block only logs.
SaveResponse(i) ==
    /\ scalls[i].kind \in SliderFields \cup SoundFields
    /\ scalls[i].pc = "save"
    /\ scalls[i].net \in {"ok", "err"}
    /\ globalSettings' = IF scalls[i].net = "ok"
                         THEN [globalSettings EXCEPT ![scalls[i].kind] = scalls[i].value]
                         ELSE globalSettings
    /\ scalls' = [scalls EXCEPT ![i].pc = "done", ![i].net = "none",
                                ![i].mut = scalls[i].net]
    /\ UNCHANGED <<activeScene, audioSystems, switching, isOpen, remote>>
    /\ UNCHANGED soundVars
    /\ UNCHANGED alarmVars
    /\ UNCHANGED modalVars
    /\ UNCHANGED <<mounted, toasts, timers, shown, isDragging, sliderEvents>>

\* AudioSystemSelector.handleToggle (the card and the expand button).
SelectorToggle ==
    /\ InactiveSystems(audioSystems) # {}
    /\ isOpen' = ~isOpen
    /\ UNCHANGED <<activeScene, audioSystems, globalSettings, switching, remote, scalls>>
    /\ UNCHANGED soundVars
    /\ UNCHANGED alarmVars
    /\ UNCHANGED modalVars
    /\ UNCHANGED <<mounted, toasts, timers, shown, isDragging, sliderEvents>>

\* A handleSystemChange that starts a switch whatever is running.
SwitchGuardMissing(sw) == FALSE

\* handleSystemChange: if (switching) return
SwitchGuard(sw) == sw # NULL

\* handleSystemChange(id) up to the await inside onAudioSystemChange. The
\* buttons of the dropdown are those of the inactive systems; the handler is
\* run also for a button that is disabled while switching is set, and then
\* logged as ignored.
HandleSystemChange(id) ==
    /\ isOpen
    /\ id \in InactiveSystems(audioSystems)
    /\ Len(scalls) < MaxSettingCalls
    /\ IF SwitchGuard(switching)
       THEN /\ scalls' = Append(scalls,
                   [NewSettingCall("audio", id, audioSystems, "done", "none")
                       EXCEPT !.mut = "ignored"])
            /\ UNCHANGED <<switching, isOpen>>
       ELSE /\ switching' = id
            /\ isOpen' = FALSE
            /\ scalls' = Append(scalls,
                   NewSettingCall("audio", id, audioSystems, "switch", "sent"))
    /\ UNCHANGED <<activeScene, audioSystems, globalSettings, remote>>
    /\ UNCHANGED soundVars
    /\ UNCHANGED alarmVars
    /\ UNCHANGED modalVars
    /\ UNCHANGED <<mounted, toasts, timers, shown, isDragging, sliderEvents>>

\* onAudioSystemChange after await switchSystem: the optimistic map and the
\* getSystems of the try block, or the getSystems of the catch block.
SwitchResponse(i) ==
    /\ scalls[i].pc = "switch"
    /\ scalls[i].net \in {"ok", "err"}
    /\ audioSystems' = IF scalls[i].net = "ok"
                       THEN MarkActive(audioSystems, scalls[i].value)
                       ELSE audioSystems
    /\ scalls' = [scalls EXCEPT
           ![i].pc = IF scalls[i].net = "ok" THEN "reload_try" ELSE "reload_catch",
           ![i].net = "sent",
           ![i].reqs = @ + 1,
           ![i].mut = scalls[i].net]
    /\ UNCHANGED <<activeScene, globalSettings, switching, isOpen, remote>>
    /\ UNCHANGED soundVars
    /\ UNCHANGED alarmVars
    /\ UNCHANGED modalVars
    /\ UNCHANGED <<mounted, toasts, timers, shown, isDragging, sliderEvents>>

\* switching once onSystemChange has settled: the finally block.
SwitchingAfter(sw) == NULL

\* onAudioSystemChange after a getSystems: the list is replaced on success;
\* a failure in the try block goes to the catch block, which asks again; a
\* failure there is logged. When the handler returns, handleSystemChange
\* runs its finally block.
ReloadResponse(i) ==
    /\ scalls[i].pc \in {"reload_try", "reload_catch"}
    /\ scalls[i].net \in {"ok", "err"}
    /\ audioSystems' = IF scalls[i].net = "ok" THEN scalls[i].resp ELSE audioSystems
    /\ IF scalls[i].net = "err" /\ scalls[i].pc = "reload_try"
       THEN /\ scalls' = [scalls EXCEPT ![i].pc = "reload_catch", ![i].net = "sent",
                                        ![i].reqs = @ + 1]
            /\ UNCHANGED switching
       ELSE /\ scalls' = [scalls EXCEPT ![i].pc = "done", ![i].net = "none"]
            /\ switching' = SwitchingAfter(switching)
    /\ UNCHANGED <<activeScene, globalSettings, isOpen, remote>>
    /\ UNCHANGED soundVars
    /\ UNCHANGED alarmVars
    /\ UNCHANGED modalVars
    /\ UNCHANGED <<mounted, toasts, timers, shown, isDragging, sliderEvents>>

\* The backend's settings after it has accepted the request of call c.
RemoteAfter(c) ==
    IF c.kind = "scene" THEN [remote EXCEPT !.scene = c.value]
    ELSE IF c.kind \in SliderFields \cup SoundFields
         THEN [remote EXCEPT ![c.kind] = c.value]
    ELSE IF c.pc = "switch" THEN [remote EXCEPT !.audio = c.value]
    ELSE remote

\* The backend deals with the request of call i: it is applied and
\* answered, fails without effect, or is applied while the reply is lost.
SettingsBackendServe(i) ==
    /\ scalls[i].net = "sent"
    /\ \E fate \in {"ok", "failed", "lost_reply"} :
          /\ remote' = IF fate = "failed" THEN remote ELSE RemoteAfter(scalls[i])
          /\ scalls' = [scalls EXCEPT
                 ![i].net = IF fate = "ok" THEN "ok" ELSE "err",
                 ![i].resp = IF fate = "ok" /\ scalls[i].pc \in {"reload_try", "reload_catch"}
                             THEN SystemsList(remote.audio) ELSE <<>>]
    /\ UNCHANGED <<activeScene, audioSystems, globalSettings, switching, isOpen>>
    /\ UNCHANGED soundVars
    /\ UNCHANGED alarmVars
    /\ UNCHANGED modalVars
    /\ UNCHANGED <<mounted, toasts, timers, shown, isDragging, sliderEvents>>

\* SoundConfigScreen after loadData has succeeded: the local values are the
\* backend's; no scene is active.
SettingsInit ==
    /\ currentlyPlaying = NULL
    /\ isExpanded = [sec \in Sections |-> TRUE]
    /\ device = NULL
    /\ calls = <<>>
    /\ alarms = <<>>
    /\ loading = TRUE
    /\ error = NULL
    /\ server = <<>>
    /\ acalls = <<>>
    /\ returned = {}
    /\ isModalOpen = FALSE
    /\ hours = DefaultHours
    /\ minutes = DefaultMinutes
    /\ mounted = TRUE
    /\ activeScene = NULL
    /\ audioSystems = SystemsList(Systems[1])
    /\ globalSettings = [brightness |-> 100, volume |-> "0.5",
                         wakeUpSound |-> "a", getUpSound |-> "b"]
    /\ switching = NULL
    /\ isOpen = FALSE
    /\ remote = [scene |-> NULL, brightness |-> 100, volume |-> "0.5",
                 wakeUpSound |-> "a", getUpSound |-> "b", audio |-> Systems[1]]
    /\ scalls = <<>>
    /\ toasts = <<>>
    /\ timers = {}
    /\ shown = 0
    /\ isDragging = FALSE
    /\ sliderEvents = <<>>

SettingsNext ==
    \/ \E sc \in Scenes : OnSceneSelect(sc)
    \/ \E f \in SliderFields : \E v \in SliderValues(f) : OnSliderChange(f, v)
    \/ \E f \in SliderFields : OnSliderChangeEnd(f)
    \/ \E f \in SoundFields : \E s \in Sounds : OnSoundChange(f, s)
    \/ SelectorToggle
    \/ \E id \in {Systems[k] : k \in DOMAIN Systems} : HandleSystemChange(id)
    \/ \E i \in DOMAIN scalls : SettingsBackendServe(i)
    \/ \E i \in DOMAIN scalls : SceneResponse(i)
    \/ \E i \in DOMAIN scalls : SaveResponse(i)
    \/ \E i \in DOMAIN scalls : SwitchResponse(i)
    \/ \E i \in DOMAIN scalls : ReloadResponse(i)

SettingsSpec == SettingsInit /\ [][SettingsNext]_vars

(***************************************************************************)
(* Toasts (ToastProvider, ToastItem)                                       *)
(***************************************************************************)

\* The number of showToast calls in one run.
MaxToasts == 4

\* toast.duration is optional: <<>> when absent, <<d>> when given.
Durations == {<<>>, <<0>>, <<3000>>}

DefaultDuration == 5000

\* A timer that takes the duration as it is given.
TimerDelayUnchecked(d) == IF d = <<>> THEN DefaultDuration ELSE d[1]

\* ToastItem: setTimeout(..., toast.duration || 5000)
TimerDelay(d) == IF d = <<>> \/ d[1] = 0 THEN DefaultDuration ELSE d[1]

\* showToast draws the id from Math.random; the model numbers the toasts, so
\* ids are fresh.
ToastId(n) == n

ToastIds(list) == {list[k].id : k \in DOMAIN list}

\* A filter that also drops what stands behind the toast.
RemoveToastAndRest(list, id) ==
    SubSeq(list, 1, (CHOOSE k \in DOMAIN list : list[k].id = id) - 1)

\* removeToast: prev.filter(toast => toast.id !== id)
RemoveToastFrom(list, id) == SelectSeq(list, LAMBDA x : x.id # id)

\* showToast, the render of the new ToastItem and its effect, which starts
\* the timer.
ShowToast(d) ==
    /\ shown < MaxToasts
    /\ LET id == ToastId(shown + 1)
       IN /\ toasts' = Append(toasts, [id |-> id, duration |-> d])
          /\ timers' = timers \cup {[id |-> id, delay |-> TimerDelay(d)]}
    /\ shown' = shown + 1
    /\ UNCHANGED soundVars
    /\ UNCHANGED alarmVars
    /\ UNCHANGED modalVars
    /\ UNCHANGED settingsVars
    /\ UNCHANGED sliderVars
    /\ UNCHANGED mounted

\* The X button of a toast: removeToast(id); the ToastItem unmounts and its
\* effect cleanup clears the timer.
RemoveToast(id) ==
    /\ id \in ToastIds(toasts)
    /\ toasts' = RemoveToastFrom(toasts, id)
    /\ timers' = {tm \in timers : tm.id # id}
    /\ UNCHANGED shown
    /\ UNCHANGED soundVars
    /\ UNCHANGED alarmVars
    /\ UNCHANGED modalVars
    /\ UNCHANGED settingsVars
    /\ UNCHANGED sliderVars
    /\ UNCHANGED mounted

\* The timer of a ToastItem fires: onRemove(toast.id).
TimerFires(tm) ==
    /\ tm \in timers
    /\ toasts' = RemoveToastFrom(toasts, tm.id)
    /\ timers' = {x \in timers : x.id # tm.id}
    /\ UNCHANGED shown
    /\ UNCHANGED soundVars
    /\ UNCHANGED alarmVars
    /\ UNCHANGED modalVars
    /\ UNCHANGED settingsVars
    /\ UNCHANGED sliderVars
    /\ UNCHANGED mounted

\* ToastProvider mounted with no toast.
ToastInit ==
    /\ currentlyPlaying = NULL
    /\ isExpanded = [sec \in Sections |-> TRUE]
    /\ device = NULL
    /\ calls = <<>>
    /\ alarms = <<>>
    /\ loading = TRUE
    /\ error = NULL
    /\ server = <<>>
    /\ acalls = <<>>
    /\ returned = {}
    /\ isModalOpen = FALSE
    /\ hours = DefaultHours
    /\ minutes = DefaultMinutes
    /\ mounted = TRUE
    /\ activeScene = NULL
    /\ audioSystems = <<>>
    /\ globalSettings = [brightness |-> 100, volume |-> "0.5",
                         wakeUpSound |-> "", getUpSound |-> ""]
    /\ switching = NULL
    /\ isOpen = FALSE
    /\ remote = <<>>
    /\ scalls = <<>>
    /\ toasts = <<>>
    /\ timers = {}
    /\ shown = 0
    /\ isDragging = FALSE
    /\ sliderEvents = <<>>

\* Every timer a run can start.
AllTimers == [id : {ToastId(n) : n \in 1..MaxToasts}, delay : {3000, DefaultDuration}]

ToastNext ==
    \/ \E d \in Durations : ShowToast(d)
    \/ \E id \in ToastIds(toasts) : RemoveToast(id)
    \/ \E tm \in AllTimers : TimerFires(tm)

ToastSpec == ToastInit /\ [][ToastNext]_vars

\* A timer that has been started and not cleared fires: the event loop runs
\* every due timer.
ToastFairSpec ==
    ToastInit /\ [][ToastNext]_vars /\ \A tm \in AllTimers : WF_vars(TimerFires(tm))

(***************************************************************************)
(* Slider                                                                  *)
(***************************************************************************)

\* The number of pointer events in one run.
MaxSliderEvents == 4

EndEvents == {"pointerup", "mouseup", "touchend"}

\* An end handler that leaves the ref as it is.
DraggingAfterEndKept(d) == d

\* isDragging.current after an end handler: cleared inside the if, and
\* already false outside it.
DraggingAfterEnd(d) == FALSE

\* onPointerDown: isDragging.current = true
HandlePointerDown ==
    /\ Len(sliderEvents) < MaxSliderEvents
    /\ isDragging' = TRUE
    /\ sliderEvents' = Append(sliderEvents, [ev |-> "pointerdown", called |-> FALSE])
    /\ UNCHANGED soundVars
    /\ UNCHANGED alarmVars
    /\ UNCHANGED modalVars
    /\ UNCHANGED settingsVars
    /\ UNCHANGED toastVars
    /\ UNCHANGED mounted

\* onPointerUp: when the ref is set, it is cleared and onChangeEnd is called.
HandlePointerUp ==
    /\ Len(sliderEvents) < MaxSliderEvents
    /\ sliderEvents' = Append(sliderEvents, [ev |-> "pointerup", called |-> isDragging])
    /\ isDragging' = DraggingAfterEnd(isDragging)
    /\ UNCHANGED soundVars
    /\ UNCHANGED alarmVars
    /\ UNCHANGED modalVars
    /\ UNCHANGED settingsVars
    /\ UNCHANGED toastVars
    /\ UNCHANGED mounted

\* onMouseUp, the same body.
HandleMouseUp ==
    /\ Len(sliderEvents) < MaxSliderEvents
    /\ sliderEvents' = Append(sliderEvents, [ev |-> "mouseup", called |-> isDragging])
    /\ isDragging' = DraggingAfterEnd(isDragging)
    /\ UNCHANGED soundVars
    /\ UNCHANGED alarmVars
    /\ UNCHANGED modalVars
    /\ UNCHANGED settingsVars
    /\ UNCHANGED toastVars
    /\ UNCHANGED mounted

\* onTouchEnd, the same body.
HandleTouchEnd ==
    /\ Len(sliderEvents) < MaxSliderEvents
    /\ sliderEvents' = Append(sliderEvents, [ev |-> "touchend", called |-> isDragging])
    /\ isDragging' = DraggingAfterEnd(isDragging)
    /\ UNCHANGED soundVars
    /\ UNCHANGED alarmVars
    /\ UNCHANGED modalVars
    /\ UNCHANGED settingsVars
    /\ UNCHANGED toastVars
    /\ UNCHANGED mounted

\* A Slider just mounted: useRef(false).
SliderInit ==
    /\ currentlyPlaying = NULL
    /\ isExpanded = [sec \in Sections |-> TRUE]
    /\ device = NULL
    /\ calls = <<>>
    /\ alarms = <<>>
    /\ loading = TRUE
    /\ error = NULL
    /\ server = <<>>
    /\ acalls = <<>>
    /\ returned = {}
    /\ isModalOpen = FALSE
    /\ hours = DefaultHours
    /\ minutes = DefaultMinutes
    /\ mounted = TRUE
    /\ activeScene = NULL
    /\ audioSystems = <<>>
    /\ globalSettings = [brightness |-> 100, volume |-> "0.5",
                         wakeUpSound |-> "", getUpSound |-> ""]
    /\ switching = NULL
    /\ isOpen = FALSE
    /\ remote = <<>>
    /\ scalls = <<>>
    /\ toasts = <<>>
    /\ timers = {}
    /\ shown = 0
    /\ isDragging = FALSE
    /\ sliderEvents = <<>>

SliderNext ==
    \/ HandlePointerDown
    \/ HandlePointerUp
    \/ HandleMouseUp
    \/ HandleTouchEnd

SliderSpec == SliderInit /\ [][SliderNext]_vars

(***************************************************************************)
(* Properties                                                              *)
(***************************************************************************)

AllDone == \A i \in DOMAIN calls : calls[i].pc = "done"

\* C1: every run of stopAllSounds ends with currentlyPlaying = null and does
\* not reject to its caller, also when the stop request failed.
C1_StopAllAlwaysClears ==
    [][\A i \in DOMAIN calls :
          (calls[i].pc \in StopPcs /\ calls'[i].pc \notin StopPcs)
             => (currentlyPlaying' = NULL /\ ~calls'[i].rejected)]_vars

\* C2: currentlyPlaying is null or one of the sound ids, so at most one
\* SoundOption widget derives isPlaying = true.
C2_AtMostOnePlaying ==
    /\ currentlyPlaying \in Sounds \cup {NULL}
    /\ Cardinality({s \in Sounds : IsPlaying(s)}) <= 1

C2_Witness ==
    /\ IsPlaying("b")
    /\ \E i, j, k \in DOMAIN calls :
          /\ calls[i].sound = "a" /\ calls[i].outcome = "play_ok"
          /\ calls[j].sound = "b" /\ calls[j].outcome = "play_ok"
          /\ calls[k].kind = "collapse" /\ calls[k].pc = "done"

\* C3: when the play request of a handlePlayback run is rejected, the run
\* ends with currentlyPlaying = null.
C3_PlayRejectResets ==
    [][\A i \in DOMAIN calls :
          (calls[i].pc = "play" /\ calls[i].net = "err" /\ calls'[i].pc = "done")
             => currentlyPlaying' = NULL]_vars

\* A switch whose stop request failed too, so another sound was still
\* recorded when the play request was rejected.
C3_Witness ==
    \E i \in DOMAIN calls :
       /\ calls[i].pc = "done"
       /\ calls[i].outcome = "play_err"
       /\ calls[i].reqs = <<"stop", calls[i].sound>>
       /\ calls[i].cp # NULL
       /\ currentlyPlaying = NULL
       /\ device = calls[i].cp

\* C4: when a collapse was the last handler started and every handler has
\* completed, currentlyPlaying = null.
C4_CollapseEndsIdle ==
    (/\ Len(calls) > 0
     /\ calls[Len(calls)].kind = "collapse"
     /\ AllDone)
       => currentlyPlaying = NULL

\* C5: a handlePlayback run started for the sound that is playing sends one
\* stop request, no play request, and ends with currentlyPlaying = null.
C5_ToggleOffEndsIdle ==
    [][\A i \in DOMAIN calls :
          (calls[i].pc = "stop_toggle" /\ calls'[i].pc # "stop_toggle")
             => /\ calls'[i].pc = "done"
                /\ calls'[i].reqs = <<"stop">>
                /\ currentlyPlaying' = NULL]_vars

\* The run consists of handlePlayback(a) followed by handlePlayback(b), b # a.
TwoPlays ==
    /\ Len(calls) = 2
    /\ calls[1].kind = "play"
    /\ calls[2].kind = "play"
    /\ calls[1].sound # calls[2].sound

C7_ToggleFailureRollsBack ==
    [][\A i \in DOMAIN acalls :
          (acalls[i].pc = "toggle" /\ acalls[i].net = "err" /\ acalls'[i].pc = "done")
             => /\ error' # NULL
                /\ Len(alarms') = Len(alarms)
                /\ \A k \in DOMAIN alarms :
                      IF alarms[k].alarm_id = acalls[i].id
                      THEN /\ alarms'[k].alarm_id = acalls[i].id
                           /\ alarms'[k].active = acalls[i].currentActive
                      ELSE alarms'[k] = alarms[k]]_vars

C7_Witness ==
    \E i \in DOMAIN acalls : \E k, m \in DOMAIN alarms :
       /\ acalls[i].kind = "toggle"
       /\ acalls[i].pc = "done"
       /\ acalls[i].mut = "err"
       /\ error = ErrToggle
       /\ alarms[k].alarm_id = acalls[i].id
       /\ alarms[k].active = acalls[i].currentActive
       /\ alarms[m].alarm_id # acalls[i].id

\* C8: handleToggleAlarm(id, currentActive) writes active = !currentActive to
\* record id in the step that sends the request, and changes neither another
\* record nor another field of the record.
C8_OptimisticWriteFrame ==
    [][(Len(acalls') = Len(acalls) + 1 /\ acalls'[Len(acalls')].kind = "toggle")
          => LET c == acalls'[Len(acalls')]
             IN /\ c.pc = "toggle"
                /\ c.net = "sent"
                /\ Len(alarms') = Len(alarms)
                /\ \A k \in DOMAIN alarms :
                      IF alarms[k].alarm_id = c.id
                      THEN /\ alarms[k].active = c.currentActive
                           /\ alarms'[k] = [alarms[k] EXCEPT !.active = ~c.currentActive]
                      ELSE alarms'[k] = alarms[k]]_vars

\* The optimistic value is displayed while the request is still unanswered
\* and the backend still holds the old value; the other record differs.
C8_Witness ==
    \E i \in DOMAIN acalls : \E k, m \in DOMAIN alarms :
       /\ acalls[i].pc = "toggle"
       /\ acalls[i].net = "sent"
       /\ alarms[k].alarm_id = acalls[i].id
       /\ alarms[k].active = ~acalls[i].currentActive
       /\ alarms[m].alarm_id # acalls[i].id
       /\ alarms[m].active = acalls[i].currentActive
       /\ \E n \in DOMAIN server :
             server[n].alarm_id = acalls[i].id /\ server[n].active = acalls[i].currentActive

\* C9: after a successful toggle request handleToggleAlarm sends a getAll,
\* and when that succeeds the displayed list is the list it returned.
C9_SuccessRefetches ==
    [][\A i \in DOMAIN acalls :
          /\ (acalls[i].pc = "toggle" /\ acalls[i].net = "ok" /\ acalls'[i] # acalls[i])
                => (acalls'[i].pc = "load" /\ acalls'[i].net = "sent")
          /\ (acalls[i].kind = "toggle" /\ acalls[i].pc = "load"
                /\ acalls[i].net = "ok" /\ acalls'[i].pc = "done")
                => alarms' = acalls[i].resp]_vars

\* The refetch brought something the optimistic list did not have: the
\* backend's value of another record (an earlier toggle whose reply was lost).
C9_Witness ==
    \E i, j \in DOMAIN acalls :
       /\ acalls[i].kind = "toggle"
       /\ acalls[i].mut = "ok"
       /\ acalls[i].loaded = "ok"
       /\ acalls[i].pc = "done"
       /\ alarms = acalls[i].resp
       /\ alarms = server
       /\ acalls[j].kind = "toggle"
       /\ acalls[j].mut = "err"
       /\ acalls[j].id # acalls[i].id
       /\ \E k \in DOMAIN alarms :
             alarms[k].alarm_id = acalls[j].id /\ alarms[k].active = ~acalls[j].currentActive

\* C10: every displayed active value was reported by the backend for that
\* alarm, or is the desired value of a toggle request still in flight.
C10_DisplayedIsConfirmedOrPending ==
    \A k \in DOMAIN alarms :
       \/ <<alarms[k].alarm_id, alarms[k].active>> \in returned
       \/ \E i \in DOMAIN acalls :
             /\ acalls[i].pc = "toggle"
             /\ acalls[i].id = alarms[k].alarm_id
             /\ alarms[k].active = ~acalls[i].currentActive

AllAlarmCallsDone == \A i \in DOMAIN acalls : acalls[i].pc = "done"

\* C11: once no request is in flight the displayed list equals the backend's
\* list.  Stated for the runs with at least one toggle or delete in which
\* every getAll succeeded and the backend holds the list first loaded.
C11_ConvergesToServer ==
    (/\ AllAlarmCallsDone
     /\ \E i \in DOMAIN acalls : acalls[i].kind \in {"toggle", "delete"}
     /\ \A i \in DOMAIN acalls : acalls[i].loaded # "err"
     /\ acalls[1].resp = server)
       => alarms = server

\* C12: handleDeleteAlarm(id) removes record id in the step that sends the
\* delete request; when the response arrives, success or failure, it sends a
\* getAll and leaves the list alone; a record that is not displayed appears
\* only in the step that installs a list the backend returned.
C12_DeleteDefersToServer ==
    [][/\ (Len(acalls') = Len(acalls) + 1 /\ acalls'[Len(acalls')].kind = "delete")
            => LET c == acalls'[Len(acalls')]
               IN /\ c.net = "sent"
                  /\ HasAlarm(alarms, c.id)
                  /\ ~HasAlarm(alarms', c.id)
                  /\ \A k \in DOMAIN alarms :
                        alarms[k].alarm_id # c.id
                           => \E m \in DOMAIN alarms' : alarms'[m] = alarms[k]
       /\ \A i \in DOMAIN acalls :
             (acalls[i].pc = "delete" /\ acalls'[i].pc # "delete")
                => /\ acalls'[i].pc = "load"
                   /\ acalls'[i].net = "sent"
                   /\ alarms' = alarms
       /\ \A id \in {1, 2} :
             (~HasAlarm(alarms, id) /\ HasAlarm(alarms', id))
                => \E i \in DOMAIN acalls :
                      /\ acalls[i].pc = "load"
                      /\ acalls[i].net = "ok"
                      /\ acalls'[i].pc = "done"
                      /\ alarms' = acalls[i].resp]_vars

\* A failed delete whose follow-up getAll brought the record back.
C12_Witness ==
    \E i \in DOMAIN acalls :
       /\ acalls[i].kind = "delete"
       /\ acalls[i].mut = "err"
       /\ acalls[i].loaded = "ok"
       /\ acalls[i].pc = "done"
       /\ HasAlarm(alarms, acalls[i].id)
       /\ alarms = server

\* The step in which call i handles the rejection of alarmApi.create.
CreateFailureHandled(i) ==
    /\ acalls[i].pc = "create"
    /\ acalls[i].net = "err"
    /\ acalls'[i].pc = "done"

\* C13: when alarmApi.create fails after the user confirmed a time, the
\* creation modal is open with the chosen hours and minutes once the failure
\* has been handled.
C13_FailedCreateKeepsModal ==
    [][\A i \in DOMAIN acalls :
          CreateFailureHandled(i) =>
              /\ isModalOpen'
              /\ FormatTime(hours', minutes') = acalls[i].time]_vars

\* C14: when alarmApi.create(time) fails, the error shown once the handler has
\* completed is the duplicate message for time exactly when the status is 409,
\* the format message exactly when it is 422 and the generic message for every
\* other failure, a missing response (status 0) included; the local list is
\* the one before the step.
C14_CreateFailureMessage ==
    [][\A i \in DOMAIN acalls :
          CreateFailureHandled(i) =>
              LET st == acalls[i].status
                  dup == "Alarm fuer " \o acalls[i].time \o " existiert bereits"
              IN /\ (st = 409) <=> (error' = dup)
                 /\ (st = 422) <=> (error' = "Ungueltiges Zeitformat")
                 /\ (st \notin {409, 422}) <=>
                        (error' = "Fehler beim Erstellen des Alarms")
                 /\ alarms' = alarms]_vars

\* A create for the time the backend already holds was refused with 409 and
\* the duplicate message is shown.
C14_Witness ==
    \E i \in DOMAIN acalls :
        /\ acalls[i].kind = "create"
        /\ acalls[i].pc = "done"
        /\ acalls[i].mut = "err"
        /\ acalls[i].status = 409
        /\ acalls[i].time = "07:00"
        /\ error = "Alarm fuer 07:00 existiert bereits"

\* C15: after alarmApi.create succeeds handleAddAlarm issues a getAll, and it
\* ends with the creation modal closed; when that getAll succeeds the local
\* list is the fetched list, which is the head of the backend's list and holds
\* the new alarm.
C15_CreateSuccessRefreshes ==
    [][\A i \in DOMAIN acalls :
          /\ (acalls[i].pc = "create" /\ acalls[i].net = "ok"
                  /\ acalls'[i] # acalls[i])
                => /\ acalls'[i].pc = "load"
                   /\ acalls'[i].net = "sent"
                   /\ loading'
          /\ (acalls[i].kind = "create" /\ acalls[i].pc = "load"
                  /\ acalls'[i].pc = "done")
                => /\ ~isModalOpen'
                   /\ acalls[i].net = "ok"
                         => /\ alarms' = acalls[i].resp
                            /\ Len(alarms') <= Len(server')
                            /\ alarms' = SubSeq(server', 1, Len(alarms'))
                            /\ HasTime(alarms', acalls[i].time)]_vars

\* A create went through, its getAll succeeded, and the list shown is the
\* backend's list with the new alarm; the modal is closed.
C15_Witness ==
    \E i \in DOMAIN acalls :
        /\ acalls[i].kind = "create"
        /\ acalls[i].pc = "done"
        /\ acalls[i].mut = "ok"
        /\ acalls[i].loaded = "ok"
        /\ ~isModalOpen
        /\ alarms = server
        /\ HasTime(alarms, acalls[i].time)

\* The step in which call i resumes after its await of soundApi.stop.
StopHandled(i) ==
    /\ calls[i].pc \in StopPcs
    /\ calls[i].net \in {"ok", "err"}
    /\ calls'[i].pc # calls[i].pc

\* C16: stopAllSounds run while currentlyPlaying = null leaves it null and
\* does not throw, whether the stop request succeeds or fails; a second run
\* right after the first gives what the first gave.
C16_StopWhenIdleIsIdempotent ==
    /\ [](\A ok1 \in BOOLEAN, ok2 \in BOOLEAN :
            LET once == StopAllSounds(NULL, ok1)
                twice == StopAllSounds(once.cp, ok2)
            IN /\ once = [cp |-> NULL, threw |-> FALSE]
               /\ twice = once)
    /\ [][\A i \in DOMAIN calls :
            (StopHandled(i) /\ currentlyPlaying = NULL)
              => /\ currentlyPlaying' = NULL
                 /\ ~calls'[i].rejected
                 /\ calls'[i].outcome \in {"stop_ok", "stop_err"}]_vars

\* Two collapses started and finished while nothing played, one stop request
\* answered and one failed; nothing plays.
C16_Witness ==
    /\ Len(calls) = 2
    /\ \A i \in DOMAIN calls :
          /\ calls[i].kind = "collapse"
          /\ calls[i].cp = NULL
          /\ calls[i].pc = "done"
    /\ calls[1].outcome = "stop_err"
    /\ calls[2].outcome = "stop_ok"
    /\ currentlyPlaying = NULL

\* Two handlePlayback calls for different sounds, both started while nothing
\* was recorded as playing (so the second started before the first was
\* answered), both answered with success and both finished.
TwoOverlappingPlays ==
    /\ Len(calls) = 2
    /\ \A i \in DOMAIN calls :
          /\ calls[i].kind = "play"
          /\ calls[i].cp = NULL
          /\ calls[i].pc = "done"
          /\ calls[i].outcome = "play_ok"
    /\ calls[1].sound # calls[2].sound

\* C17: after two overlapping handlePlayback invocations for different sounds
\* have completed, currentlyPlaying is the sound of the one started last,
\* whatever the order of the responses.
C17_LastStartedWins ==
    TwoOverlappingPlays => currentlyPlaying = calls[2].sound

\* No request of any call was rejected.
NoSoundRequestFailed ==
    \A i \in DOMAIN calls : calls[i].outcome \in {"none", "stop_ok", "play_ok"}

\* C18: whenever no playback request is in flight, currentlyPlaying is the
\* sound the backend device plays. Stated here for the runs without any
\* failed request, which the claim includes.
C18_UiMatchesDevice ==
    (AllDone /\ NoSoundRequestFailed) => currentlyPlaying = device

\* Call i is a handlePlayback(y) that found another sound x recorded.
IsSwitch(i) ==
    /\ calls[i].kind = "play"
    /\ calls[i].cp \notin {NULL, calls[i].sound}

\* C19: a handlePlayback(y) run with currentlyPlaying = x # y sends its play
\* request only after the backend has acknowledged the stop and the settle
\* delay has elapsed, and its write of y does not replace x directly.
C19_SwitchStopsBeforePlay ==
    [][\A i \in DOMAIN calls :
          IsSwitch(i) =>
            /\ (calls[i].pc # "play" /\ calls'[i].pc = "play")
                  => /\ calls[i].pc = "settle"
                     /\ calls[i].outcome = "stop_ok"
            /\ (calls[i].pc = "play" /\ calls'[i].pc = "done"
                    /\ currentlyPlaying' = calls[i].sound)
                  => currentlyPlaying # calls[i].cp]_vars

\* The list shows record id, if at all, with the active flag the handler of
\* call i captured before its optimistic write.
ToggleRestored(list, i) ==
    \A k \in DOMAIN list :
        list[k].alarm_id = acalls[i].id => list[k].active = acalls[i].currentActive

\* C20: every completed run of handleToggleAlarm or handleDeleteAlarm ends
\* having either replaced the local list with a successfully fetched list or
\* restored the affected record to its value before the mutation, whatever
\* the outcomes of the mutation request and of the getAll after it.
C20_EndsRefreshedOrReverted ==
    [][\A i \in DOMAIN acalls :
          (acalls[i].kind \in {"toggle", "delete"}
              /\ acalls[i].pc # "done" /\ acalls'[i].pc = "done")
            => \/ /\ acalls[i].pc = "load"
                  /\ acalls[i].net = "ok"
                  /\ alarms' = acalls[i].resp
               \/ /\ acalls[i].kind = "toggle"
                  /\ ToggleRestored(alarms', i)
               \/ /\ acalls[i].kind = "delete"
                  /\ HasAlarm(alarms', acalls[i].id)]_vars

C22_UnmountSendsStop ==
    [][(mounted /\ ~mounted' /\ currentlyPlaying # NULL)
          => /\ Len(calls') = Len(calls) + 1
             /\ calls'[Len(calls')].reqs = <<"stop">>]_vars

\* Call i of the settings screen returns in this step and its mutation
\* request had failed.
SettingFailureHandled(i) ==
    /\ scalls[i].pc # "done"
    /\ scalls'[i].pc = "done"
    /\ \/ scalls[i].pc = "save" /\ scalls[i].net = "err"
       \/ scalls[i].kind = "audio" /\ scalls[i].mut = "err"

\* C23: when its backend request fails, every settings mutation (scene,
\* brightness, volume, wake-up sound, get-up sound, audio system) leaves the
\* local value equal to the value before the user's change or replaced by a
\* value reloaded from the server.
C23_FailedSettingRecovers ==
    [][\A i \in DOMAIN scalls :
          SettingFailureHandled(i) =>
              IF scalls[i].kind = "scene"
              THEN activeScene' = scalls[i].prior
              ELSE IF scalls[i].kind = "audio"
              THEN \/ audioSystems' = scalls[i].prior
                   \/ scalls[i].net = "ok" /\ audioSystems' = scalls[i].resp
              ELSE globalSettings'[scalls[i].kind] = scalls[i].prior]_vars

\* C24: no request is sent again by itself. One handlePlayback call sends at
\* most one stop and at most one play, one stopAllSounds call (a collapse)
\* exactly one stop, and one handleToggleAlarm call exactly one toggle
\* request and at most one getAll, whatever the outcomes.
C24_NoAutomaticResend ==
    /\ [](\A i \in DOMAIN calls :
            IF calls[i].kind = "play"
            THEN calls[i].reqs \in {<<calls[i].sound>>, <<"stop">>,
                                    <<"stop", calls[i].sound>>}
            ELSE calls[i].reqs = <<"stop">>)
    /\ [][\A i \in DOMAIN acalls :
            acalls[i].kind = "toggle" =>
              /\ acalls'[i].pc = "toggle" => acalls[i].pc = "toggle"
              /\ (acalls[i].net # "sent" /\ acalls'[i].net = "sent")
                    => /\ acalls[i].pc = "toggle"
                       /\ acalls'[i].pc = "load"
              /\ acalls[i].pc = "load" => acalls'[i].pc \in {"load", "done"}
              /\ acalls[i].pc = "done" => acalls'[i] = acalls[i]]_vars

\* A handleToggleAlarm whose toggle succeeded and whose getAll failed has
\* returned, and nothing is in flight.
C24_Witness ==
    /\ \E i \in DOMAIN acalls :
          /\ acalls[i].kind = "toggle"
          /\ acalls[i].mut = "ok"
          /\ acalls[i].loaded = "err"
    /\ AllAlarmCallsDone

\* A handlePlayback that stopped another sound and then played its own has
\* returned after its play request failed.
C24_SoundWitness ==
    \E i \in DOMAIN calls :
        /\ calls[i].reqs = <<"stop", calls[i].sound>>
        /\ calls[i].pc = "done"
        /\ calls[i].outcome = "play_err"

\* Toast id has left the list in this step.
ToastRemoved(id) == id \in ToastIds(toasts) /\ id \notin ToastIds(toasts')

\* C25: every toast added by showToast is eventually removed from the list,
\* by its timer (set to the duration, 5000 ms when the duration is absent or
\* 0) or by removeToast, and removing it leaves the other toasts and their
\* order as they were.
C25_ToastsAreRemoved ==
    /\ [](\A k \in DOMAIN toasts :
            \E tm \in timers :
               /\ tm.id = toasts[k].id
               /\ tm.delay = IF toasts[k].duration \in {<<>>, <<0>>}
                             THEN 5000 ELSE toasts[k].duration[1])
    /\ [][\A id \in ToastIds(toasts) :
            ToastRemoved(id) =>
               \E k \in DOMAIN toasts :
                  /\ toasts[k].id = id
                  /\ toasts' = SubSeq(toasts, 1, k - 1)
                                  \o SubSeq(toasts, k + 1, Len(toasts))]_vars
    /\ \A n \in 1..MaxToasts :
          (ToastId(n) \in ToastIds(toasts)) ~> (ToastId(n) \notin ToastIds(toasts))

\* Three toasts were shown, the second (no duration given) is gone and the
\* first and third are displayed in their order.
C25_Witness ==
    /\ shown = 3
    /\ Len(toasts) = 2
    /\ toasts[1].id = ToastId(1)
    /\ toasts[2].id = ToastId(3)
    /\ toasts[1].duration = <<0>>

\* Call i, a delete whose request failed, ends in this step (its follow-up
\* reload returns).
FailedDeleteEnds(i) ==
    /\ acalls[i].kind = "delete"
    /\ acalls[i].mut = "err"
    /\ acalls[i].pc = "load"
    /\ acalls'[i].pc = "done"

\* C26: when the delete request of handleDeleteAlarm has failed, the message
\* "Fehler beim Loeschen des Alarms" is displayed once the handler, its
\* follow-up reload included, has completed.
C26_FailedDeleteShowsMessage ==
    [][\A i \in DOMAIN acalls : FailedDeleteEnds(i) => error' = ErrDelete]_vars

\* Call i has a getAll request of loadAlarms in flight: sent, and its
\* continuation in loadAlarms not yet run.
GetAllInFlight(i) == acalls[i].pc = "load"

\* C27: on the alarm screen loading is true exactly while at least one getAll
\* request started by loadAlarms is in flight, overlapping runs included, and
\* false once all of them have completed.
C27_LoadingIffGetAllInFlight ==
    loading <=> \E i \in DOMAIN acalls : GetAllInFlight(i)

\* Call i is a handleSystemChange that has started a switch and has not yet
\* run its finally block.
SwitchRunning(i) == scalls[i].kind = "audio" /\ scalls[i].pc # "done"

\* handleSystemChange is invoked in this step.
SystemChangeInvoked ==
    /\ Len(scalls') = Len(scalls) + 1
    /\ scalls'[Len(scalls')].kind = "audio"

\* C28: in AudioSystemSelector at most one switch is in flight at any time:
\* handleSystemChange invoked while switching is not null sends no request,
\* and switching is null again when the running switch has completed,
\* whether it succeeded or failed.
C28_OneSwitchAtATime ==
    /\ [](/\ Cardinality({i \in DOMAIN scalls : SwitchRunning(i)}) <= 1
          /\ (switching # NULL) <=> (\E i \in DOMAIN scalls : SwitchRunning(i)))
    /\ [][SystemChangeInvoked /\ switching # NULL =>
             /\ scalls'[Len(scalls')].net = "none"
             /\ scalls'[Len(scalls')].reqs = 0
             /\ UNCHANGED <<switching, remote, audioSystems>>]_vars

\* A switch has failed and ended with switching null again; an invocation made
\* while it was running was ignored.
C28_Witness ==
    /\ switching = NULL
    /\ \E i, j \in DOMAIN scalls :
          /\ scalls[i].kind = "audio"
          /\ scalls[i].pc = "done"
          /\ scalls[i].mut = "err"
          /\ scalls[i].reqs > 0
          /\ scalls[j].kind = "audio"
          /\ scalls[j].mut = "ignored"

\* Event k of the log follows a pointer-down with no end event in between.
FirstEndOfDrag(k) ==
    \E j \in 1..(k - 1) :
       /\ sliderEvents[j].ev = "pointerdown"
       /\ \A m \in (j + 1)..(k - 1) : sliderEvents[m].ev \notin EndEvents

\* C29: in Slider onChangeEnd is invoked at most once per drag: after a
\* pointer-down the first of pointerup, mouseup and touchend calls it and
\* clears isDragging, the later end events of the drag do not call it, and no
\* end event calls it without a preceding pointer-down.
C29_ChangeEndOncePerDrag ==
    /\ \A k \in DOMAIN sliderEvents :
          sliderEvents[k].ev \in EndEvents =>
             (sliderEvents[k].called <=> FirstEndOfDrag(k))
    /\ sliderEvents # <<>> /\ sliderEvents[Len(sliderEvents)].ev \in EndEvents
          => ~isDragging

\* One drag ended by pointerup and then mouseup: the first called
\* onChangeEnd, the second did not.
C29_Witness ==
    /\ Len(sliderEvents) >= 3
    /\ sliderEvents[1].ev = "pointerdown"
    /\ sliderEvents[2].ev = "pointerup"
    /\ sliderEvents[2].called
    /\ sliderEvents[3].ev = "mouseup"
    /\ ~sliderEvents[3].called
====
